---- MODULE Spec2Model ----
(***************************************************************************)
(* Model of the AI voice detection service.                                *)
(*                                                                         *)
(*   detector_fast.py : load_audio_fast -> extract_features_fast ->        *)
(*                      classify_voice, wrapped by detect_ai_voice         *)
(*   main.py          : VoiceRequest validation, verify_api_key and the    *)
(*                      /api/voice-detection handler                       *)
(*                                                                         *)
(* Numbers.  Scores, confidences and the dimensionless features are fixed  *)
(* point integers in units of 1/Scale (0.25 is 2500); frequencies are in   *)
(* Hz.  A quotient is rounded down to the grid.                            *)
(*                                                                         *)
(* Bytes.  A byte sequence is represented by what the code can observe of  *)
(* it: the result of soundfile's in-memory decode, of the file-backed      *)
(* decode, and the leading 32 bits of its MD5 digest, kept as two 16 bit   *)
(* halves (h4 = int(hexdigest[:4], 16), low = the next four hex digits).   *)
(***************************************************************************)
EXTENDS Integers, Sequences, FiniteSets, TLC

Scale == 10000

\* default target_sr of load_audio_fast
TargetSr == 16000

Threads == {"t1", "t2"}

Languages == {"english", "tamil"}

FeatureKeys == {"mean", "std", "max", "rms", "zcr", "spectral_centroid",
                "spectral_rolloff", "spectral_flatness", "energy_variance"}

Labels == {"AI_GENERATED", "HUMAN"}

Min(a, b) == IF a < b THEN a ELSE b

Max(a, b) == IF a > b THEN a ELSE b

\* dict item assignment: features[k] = v
Put(f, k, v) == [x \in (DOMAIN f) \cup {k} |-> IF x = k THEN v ELSE f[x]]

\* dict.get(k, default)
Get(f, k, default) == IF k \in DOMAIN f THEN f[k] ELSE default

EmptyDict == [x \in {} |-> 0]

(***************************************************************************)
(* Signals.  A decoded signal is its length, sample rate, channel count    *)
(* and the statistics numpy computes from its samples.                     *)
(***************************************************************************)
Stats(mean, std, mx, rms, zcr, centroid, rolloff, flatness, evar) ==
  [mean |-> mean, std |-> std, max |-> mx, rms |-> rms, zcr |-> zcr,
   centroid |-> centroid, rolloff |-> rolloff, flatness |-> flatness,
   evar |-> evar]

\* a steady synthetic tone: flat spectrum measure high, frame energies even
ToneStats == Stats(0, 4000, 8000, 4000, 300, 1500, 3000, 3500, 100)

\* noisy speech: low flatness, uneven frame energies
SpeechStats == Stats(10, 3000, 9000, 1200, 1200, 2600, 5000, 800, 4000)

\* a clip sitting on the tier boundaries
EdgeStats == Stats(0, 200, 300, 100, 800, 2000, 4000, 3000, 500)

NoDecode == [ok |-> FALSE]

Decoded(len, sr, ch, st) == [ok |-> TRUE, len |-> len, sr |-> sr, ch |-> ch, stats |-> st]

Bytes(id, mem, file, h4, low) == [id |-> id, mem |-> mem, file |-> file, h4 |-> h4, low |-> low]

\* The byte sequences fed to the detector.
AudioInputs ==
  { Bytes("noise",     NoDecode, NoDecode, 12000, 0),
    Bytes("empty",     NoDecode, NoDecode, 54301, 1),
    Bytes("tone16k",   Decoded(48000, 16000, 1, ToneStats), Decoded(48000, 16000, 1, ToneStats), 65535, 4),
    Bytes("speech44k", Decoded(44100, 44100, 2, SpeechStats), Decoded(44100, 44100, 2, SpeechStats), 0, 2),
    Bytes("edge16k",   Decoded(3200, 16000, 1, EdgeStats), Decoded(3200, 16000, 1, EdgeStats), 32768, 3),
    Bytes("zero16k",   Decoded(0, 16000, 1, ToneStats), Decoded(0, 16000, 1, ToneStats), 40000, 0),
    Bytes("zero8k",    Decoded(0, 8000, 1, ToneStats), Decoded(0, 8000, 1, ToneStats), 32767, 1),
    Bytes("fileonly1", NoDecode, Decoded(1, 16000, 2, EdgeStats), 20000, 2) }

NoBytes == Bytes("none", NoDecode, NoDecode, 0, 0)

(***************************************************************************)
(* numpy's Mersenne Twister.  The generator's state is the seed it was     *)
(* last given and the number of values drawn since.  The value of a draw   *)
(* is a fixed function of both; the table stands for MT19937's output      *)
(* scaled to [-0.05, 0.05).                                                *)
(***************************************************************************)
UniformTable == << -500, -1, 0, 1, 499 >>

OsEntropy == [seeded |-> FALSE, h4 |-> 0, low |-> 0, pos |-> 0]

\* np.random.seed(seed)
Seeded(h4, low) == [seeded |-> TRUE, h4 |-> h4, low |-> low, pos |-> 0]

\* the value np.random.uniform(-0.05, 0.05) returns in generator state g
Uniform(g) == UniformTable[((g.low + 2 * g.pos + (IF g.seeded THEN 0 ELSE 3)) % Len(UniformTable)) + 1]

\* the generator state after one draw
Advance(g) == [g EXCEPT !.pos = @ + 1]

(***************************************************************************)
(* load_audio_fast: what follows a successful sf.read                      *)
(***************************************************************************)
NoWave == [len |-> 0, stats |-> ToneStats, set |-> FALSE]

Wave(len, st) == [len |-> len, stats |-> st, set |-> TRUE]

\* round(a / b) as Python rounds: to the nearest integer, a tie to the even one
RoundDiv(a, b) ==
  LET q == a \div b
      r == a % b
  IN  IF 2 * r < b THEN q
      ELSE IF 2 * r > b THEN q + 1
      ELSE IF q % 2 = 0 THEN q ELSE q + 1

NewLengthRounded(len, sr, target_sr) == RoundDiv(len * target_sr, sr)

\* new_length = int(len(y) * ratio), ratio = target_sr / sr
NewLength(len, sr, target_sr) == (len * target_sr) \div sr

\* Downmix and resample a decoded signal d.  np.interp raises ValueError
\* when the sample points np.arange(len(y)) are empty.
PostDecode(d, target_sr) ==
  IF d.sr # target_sr
    THEN IF d.len = 0
           THEN [raised |-> TRUE, y |-> NoWave]
           ELSE [raised |-> FALSE, y |-> Wave(NewLength(d.len, d.sr, target_sr), d.stats)]
    ELSE [raised |-> FALSE, y |-> Wave(d.len, d.stats)]

\* statistics of RandomState(seed).randn(target_sr * 3): white noise of unit
\* variance, the zero crossing rate varying a little with the seed
SynthStats(h4, low) ==
  Stats(0, Scale, 4 * Scale, Scale, 5000 + ((h4 + low) % 3), 4000, 6800, 8400, 20000)

SynthWaveEmpty(b, target_sr) == Wave(0, SynthStats(b.h4, b.low))

\* the ultimate fallback of load_audio_fast
SynthWave(b, target_sr) == Wave(target_sr * 3, SynthStats(b.h4, b.low))

(***************************************************************************)
(* extract_features_fast                                                   *)
(***************************************************************************)
\* the five time-domain features of a non-empty signal
TimeDomain(y) ==
  LET f1 == Put(EmptyDict, "mean", y.stats.mean)
      f2 == Put(f1, "std", y.stats.std)
      f3 == Put(f2, "max", y.stats.max)
      f4 == Put(f3, "rms", y.stats.rms)
  IN  Put(f4, "zcr", y.stats.zcr)

\* the body of the try block: the features assigned so far, and whether the
\* block raised.  With a one-sample segment the half spectrum is empty and
\* cumsum[-1] raises IndexError after spectral_centroid was assigned.  With
\* sr < 10 the frame size sr // 10 is 0 and len(segment) // frame_size raises
\* ZeroDivisionError after centroid, rolloff and flatness were assigned.
SpectralTry(f, y, sr) ==
  LET seglen == Min(y.len, sr * 2)
      n_fft == Min(2048, seglen)
      nbins == n_fft \div 2
      frame_size == sr \div 10
      n_frames == seglen \div frame_size
      f1 == Put(f, "spectral_centroid", IF nbins > 0 THEN y.stats.centroid ELSE 0)
      f2 == Put(f1, "spectral_rolloff", y.stats.rolloff)
      f3 == Put(f2, "spectral_flatness", y.stats.flatness)
      f4 == Put(f3, "energy_variance", IF n_frames > 1 THEN y.stats.evar ELSE 0)
  IN  IF nbins = 0
        THEN [raised |-> TRUE, features |-> f1]
        ELSE IF frame_size = 0
               THEN [raised |-> TRUE, features |-> f3]
               ELSE [raised |-> FALSE, features |-> f4]

\* the neutral constants given only to the features not computed yet
SpectralDefaultsKeepComputed(f) ==
  LET f1 == Put(f, "spectral_centroid", Get(f, "spectral_centroid", 1000))
      f2 == Put(f1, "spectral_rolloff", Get(f, "spectral_rolloff", 4000))
      f3 == Put(f2, "spectral_flatness", Get(f, "spectral_flatness", 5000))
  IN  Put(f3, "energy_variance", Get(f, "energy_variance", 1000))

\* the neutral constants 1000.0, 4000.0, 0.5, 0.1
SpectralDefaults(f) ==
  LET f1 == Put(f, "spectral_centroid", 1000)
      f2 == Put(f1, "spectral_rolloff", 4000)
      f3 == Put(f2, "spectral_flatness", 5000)
  IN  Put(f3, "energy_variance", 1000)

\* np.max of an empty array raises ValueError; the dict built so far is lost
\* with the frame.
extract_features_fast(y, sr, scipy) ==
  IF y.len = 0
    THEN [raised |-> TRUE, features |-> EmptyDict]
    ELSE LET f5 == TimeDomain(y)
         IN  IF scipy /\ y.len > 0
               THEN LET s == SpectralTry(f5, y, sr)
                    IN  IF s.raised
                          THEN [raised |-> FALSE, features |-> SpectralDefaults(s.features)]
                          ELSE [raised |-> FALSE, features |-> s.features]
               ELSE [raised |-> FALSE, features |-> SpectralDefaults(f5)]

(***************************************************************************)
(* classify_voice                                                          *)
(***************************************************************************)
ClampOmitted(x) == x

\* max(0.0, min(1.0, x))
Clamp(x) == Max(0, Min(Scale, x))

\* hash_variation = (int(audio_hash[:4], 16) / 0xFFFF) * 0.2 - 0.1
HashVariation(b) == (b.h4 * 2000) \div 65535 - 1000

\* the Flatness-high tier adding what the Flatness-mid tier adds
AiScoreWeakFlatness(features, b) ==
  LET flat == Get(features, "spectral_flatness", 0)
      evar == Get(features, "energy_variance", Scale)
      zcr == Get(features, "zcr", 1000)
      centroid == Get(features, "spectral_centroid", 1500)
      rms == Get(features, "rms", 0)
      std == Get(features, "std", Scale)
      r1 == IF flat > 1500 THEN 1000 ELSE 0
      r2 == IF evar < 500 THEN 2500 ELSE IF evar < 1500 THEN 1500 ELSE 0
      r3 == IF 200 < zcr /\ zcr < 800 THEN 1500 ELSE 0
      r4 == IF 800 < centroid /\ centroid < 2000 THEN 1000 ELSE 0
      r5 == IF rms > 100 /\ (std * Scale) \div Get(features, "rms", Scale) < 2 * Scale
              THEN 1500 ELSE 0
  IN  r1 + r2 + r3 + r4 + r5 + HashVariation(b)

\* ai_score after the five rules and the content perturbation
AiScore(features, b) ==
  LET flat == Get(features, "spectral_flatness", 0)
      evar == Get(features, "energy_variance", Scale)
      zcr == Get(features, "zcr", 1000)
      centroid == Get(features, "spectral_centroid", 1500)
      rms == Get(features, "rms", 0)
      std == Get(features, "std", Scale)
      r1 == IF flat > 3000 THEN 2500 ELSE IF flat > 1500 THEN 1000 ELSE 0
      r2 == IF evar < 500 THEN 2500 ELSE IF evar < 1500 THEN 1500 ELSE 0
      r3 == IF 200 < zcr /\ zcr < 800 THEN 1500 ELSE 0
      r4 == IF 800 < centroid /\ centroid < 2000 THEN 1000 ELSE 0
      r5 == IF rms > 100 /\ (std * Scale) \div Get(features, "rms", Scale) < 2 * Scale
              THEN 1500 ELSE 0
  IN  r1 + r2 + r3 + r4 + r5 + HashVariation(b)

TotalWeight == 2500 + 2500 + 1500 + 1000 + 1500 + 1000

\* final_score = max(0.0, min(1.0, ai_score / total_weight))
NormalizedScore(features, b) == Clamp((AiScore(features, b) * Scale) \div TotalWeight)

\* final_score after the seeded draw u was added and the sum clamped again
Perturbed(score, u) == Clamp(score + u)

DecideAtThreshold(final_score) ==
  IF final_score >= 5000
    THEN [label |-> "AI_GENERATED", confidence |-> final_score]
    ELSE [label |-> "HUMAN", confidence |-> Scale - final_score]

\* the classification threshold
Decide(final_score) ==
  IF final_score > 5000
    THEN [label |-> "AI_GENERATED", confidence |-> final_score]
    ELSE [label |-> "HUMAN", confidence |-> Scale - final_score]

(***************************************************************************)
(* detect_ai_voice: the except branch                                      *)
(***************************************************************************)
\* floor(0.2 * seed / 0xFFFFFFFF) on the grid, seed = h4 * 65536 + low and
\* 0xFFFFFFFF = 65535 * 65537
HashValueFifth(b) == (2000 * b.h4 + ((2000 * (b.low - b.h4)) \div 65537)) \div 65535

\* hash_value > 0.5, i.e. 2 * seed > 0xFFFFFFFF
HashValueHigh(b) == b.h4 >= 32768

HashOnly(b) ==
  IF HashValueHigh(b)
    THEN [label |-> "AI_GENERATED", confidence |-> 6000 + HashValueFifth(b)]
    ELSE [label |-> "HUMAN", confidence |-> 6000 + (2000 - HashValueFifth(b))]

(***************************************************************************)
(* State                                                                   *)
(***************************************************************************)
VARIABLES
  SOUNDFILE_AVAILABLE,  \* module flag set by the import of soundfile
  SCIPY_AVAILABLE,      \* module flag set by the import of scipy
  tmpfs,                \* the temporary directory: "ok" or "write_fails"
  np_random,            \* numpy's process-wide generator (np.random)
  pc,                   \* per invocation: where it stands
  audio_data,           \* per invocation: the bytes argument
  language,             \* per invocation: the language argument
  y,                    \* per invocation: the waveform load_audio_fast returned
  sr,                   \* per invocation: the rate load_audio_fast returned
  tmp_path,             \* per invocation: whether the local tmp_path is bound
  tmp_file,             \* per invocation: its temporary file: "none", "exists", "deleted"
  loaded_by,            \* per invocation: the return of load_audio_fast taken
  features,             \* per invocation: the dict extract_features_fast returned
  final_score,          \* per invocation: final_score of classify_voice
  ret,                  \* per invocation: the (label, confidence) returned
  scored_by,            \* per invocation: the return of detect_ai_voice taken
  request,              \* main.py: the HTTP request being served
  stage,                \* main.py: how far the request has got
  status_code,          \* main.py: the status of the response, 0 before it
  detector_invoked      \* main.py: whether detect_ai_voice was called for it

detector_vars == << SOUNDFILE_AVAILABLE, SCIPY_AVAILABLE, tmpfs, np_random, pc,
                    audio_data, language, y, sr, tmp_path, tmp_file, loaded_by,
                    features, final_score, ret, scored_by >>

api_vars == << request, stage, status_code, detector_invoked >>

vars == << detector_vars, api_vars >>

modules == << SOUNDFILE_AVAILABLE, SCIPY_AVAILABLE, tmpfs >>

NoResult == [label |-> "none", confidence |-> 0]

\* a base64 text: data characters of the standard alphabet, then characters
\* "-" or "_" of the URL-safe alphabet, then "=" characters
B64(data, url, pad) == [present |-> TRUE, data |-> data, url |-> url, pad |-> pad]

\* the field is absent from the JSON body
NoField == [present |-> FALSE, data |-> 0, url |-> 0, pad |-> 0]

Request(key, lang, fmt, b64) ==
  [x_api_key |-> key, language |-> lang, audioFormat |-> fmt, audioBase64 |-> b64]

NoRequest == Request("<absent>", "none", "none", NoField)

ApiIdle ==
  /\ request = NoRequest
  /\ stage = "idle"
  /\ status_code = 0
  /\ detector_invoked = FALSE

Init ==
  /\ ApiIdle
  /\ SOUNDFILE_AVAILABLE \in BOOLEAN
  /\ SCIPY_AVAILABLE \in BOOLEAN
  /\ tmpfs \in {"ok", "write_fails"}
  /\ np_random = OsEntropy
  /\ pc = [t \in Threads |-> "idle"]
  /\ audio_data = [t \in Threads |-> NoBytes]
  /\ language = [t \in Threads |-> "none"]
  /\ y = [t \in Threads |-> NoWave]
  /\ sr = [t \in Threads |-> 0]
  /\ tmp_path = [t \in Threads |-> FALSE]
  /\ tmp_file = [t \in Threads |-> "none"]
  /\ loaded_by = [t \in Threads |-> "none"]
  /\ features = [t \in Threads |-> EmptyDict]
  /\ final_score = [t \in Threads |-> 0]
  /\ ret = [t \in Threads |-> NoResult]
  /\ scored_by = [t \in Threads |-> "none"]

(***************************************************************************)
(* detect_ai_voice, one invocation per thread                              *)
(***************************************************************************)
\* entry of detect_ai_voice: a fresh frame, then the call of load_audio_fast
Enter(t, b, lang) ==
  /\ pc' = [pc EXCEPT ![t] = "load_mem"]
  /\ audio_data' = [audio_data EXCEPT ![t] = b]
  /\ language' = [language EXCEPT ![t] = lang]
  /\ y' = [y EXCEPT ![t] = NoWave]
  /\ sr' = [sr EXCEPT ![t] = 0]
  /\ tmp_path' = [tmp_path EXCEPT ![t] = FALSE]
  /\ tmp_file' = [tmp_file EXCEPT ![t] = "none"]
  /\ loaded_by' = [loaded_by EXCEPT ![t] = "none"]
  /\ features' = [features EXCEPT ![t] = EmptyDict]
  /\ final_score' = [final_score EXCEPT ![t] = 0]
  /\ ret' = [ret EXCEPT ![t] = NoResult]
  /\ scored_by' = [scored_by EXCEPT ![t] = "none"]
  /\ UNCHANGED << modules, np_random, api_vars >>

\* a thread starts its invocation of detect_ai_voice whatever the other
\* threads are doing
Call(t) ==
  /\ pc[t] = "idle"
  /\ \E b \in AudioInputs, lang \in Languages : Enter(t, b, lang)

\* a call made while no other invocation is in progress; a thread that has
\* returned may call again
CallSeq(t) ==
  /\ \A u \in Threads : pc[u] \in {"idle", "done"}
  /\ \E b \in AudioInputs, lang \in Languages : Enter(t, b, lang)

\* load_audio_fast returns (y, target_sr)
LoadReturn(t, w, by) ==
  /\ y' = [y EXCEPT ![t] = w]
  /\ sr' = [sr EXCEPT ![t] = TargetSr]
  /\ loaded_by' = [loaded_by EXCEPT ![t] = by]
  /\ pc' = [pc EXCEPT ![t] = "extract"]

\* the in-memory attempt: sf.read(io.BytesIO(audio_data))
LoadMemory(t) ==
  /\ pc[t] = "load_mem"
  /\ LET d == audio_data[t].mem
         ok == SOUNDFILE_AVAILABLE /\ d.ok /\ ~PostDecode(d, TargetSr).raised
     IN  IF ok
           THEN LoadReturn(t, PostDecode(d, TargetSr).y, "memory")
           ELSE /\ pc' = [pc EXCEPT ![t] = IF SOUNDFILE_AVAILABLE THEN "tmp_write" ELSE "synth"]
                /\ UNCHANGED << y, sr, loaded_by >>
  /\ UNCHANGED << modules, np_random, audio_data, language, tmp_path, tmp_file,
                  features, final_score, ret, scored_by >>

\* os.unlink(tmp_path) inside the handler's own try/except: a NameError
\* (tmp_path unbound) or a missing file is swallowed
HandlerUnlink(bound, file) == IF bound /\ file = "exists" THEN "deleted" ELSE file

\* NamedTemporaryFile(delete=False) creates the file; tmp.write may raise,
\* and then tmp_path was never assigned
TmpWrite(t) ==
  /\ pc[t] = "tmp_write"
  /\ IF tmpfs = "write_fails"
       THEN /\ tmp_file' = [tmp_file EXCEPT ![t] = HandlerUnlink(tmp_path[t], "exists")]
            /\ pc' = [pc EXCEPT ![t] = "synth"]
            /\ UNCHANGED tmp_path
       ELSE /\ tmp_file' = [tmp_file EXCEPT ![t] = "exists"]
            /\ tmp_path' = [tmp_path EXCEPT ![t] = TRUE]
            /\ pc' = [pc EXCEPT ![t] = "tmp_read"]
  /\ UNCHANGED << modules, np_random, audio_data, language, y, sr, loaded_by,
                  features, final_score, ret, scored_by >>

\* sf.read(tmp_path), os.unlink(tmp_path), then downmix and resampling
TmpRead(t) ==
  /\ pc[t] = "tmp_read"
  /\ LET d == audio_data[t].file
     IN  IF ~d.ok
           THEN /\ tmp_file' = [tmp_file EXCEPT ![t] = HandlerUnlink(tmp_path[t], tmp_file[t])]
                /\ pc' = [pc EXCEPT ![t] = "synth"]
                /\ UNCHANGED << y, sr, loaded_by >>
           ELSE IF PostDecode(d, TargetSr).raised
                  THEN /\ tmp_file' = [tmp_file EXCEPT ![t] = HandlerUnlink(tmp_path[t], "deleted")]
                       /\ pc' = [pc EXCEPT ![t] = "synth"]
                       /\ UNCHANGED << y, sr, loaded_by >>
                  ELSE /\ tmp_file' = [tmp_file EXCEPT ![t] = "deleted"]
                       /\ LoadReturn(t, PostDecode(d, TargetSr).y, "tempfile")
  /\ UNCHANGED << modules, np_random, audio_data, language, tmp_path,
                  features, final_score, ret, scored_by >>

\* the ultimate fallback: a waveform drawn from a private RandomState
Synth(t) ==
  /\ pc[t] = "synth"
  /\ LoadReturn(t, SynthWave(audio_data[t], TargetSr), "synthetic")
  /\ UNCHANGED << modules, np_random, audio_data, language, tmp_path, tmp_file,
                  features, final_score, ret, scored_by >>

\* where an exception raised inside the try block of detect_ai_voice goes
OnExceptionEscapes == "raised"

OnException == "except"

\* features = extract_features_fast(y, sr); an exception lands in the
\* except branch of detect_ai_voice
Extract(t) ==
  /\ pc[t] = "extract"
  /\ LET r == extract_features_fast(y[t], sr[t], SCIPY_AVAILABLE)
     IN  IF r.raised
           THEN /\ pc' = [pc EXCEPT ![t] = OnException]
                /\ UNCHANGED features
           ELSE /\ features' = [features EXCEPT ![t] = r.features]
                /\ pc' = [pc EXCEPT ![t] = "classify"]
  /\ UNCHANGED << modules, np_random, audio_data, language, y, sr, tmp_path,
                  tmp_file, loaded_by, final_score, ret, scored_by >>

NpRandomSeedOmitted(g, h4, low) == g

\* the process-wide generator after np.random.seed(seed), seed = int(audio_hash[:8], 16)
NpRandomSeed(g, h4, low) == Seeded(h4, low)

\* a score that also depends on the language argument
ScoreByLanguage(t) ==
  NormalizedScore(features[t], audio_data[t]) + (IF language[t] = "tamil" THEN 1 ELSE 0)

\* final_score at line 203, computed from the features and the bytes alone
Score(t) == NormalizedScore(features[t], audio_data[t])

\* classify_voice up to and including np.random.seed(seed)
ClassifySeed(t) ==
  /\ pc[t] = "classify"
  /\ final_score' = [final_score EXCEPT ![t] = Score(t)]
  /\ np_random' = NpRandomSeed(np_random, audio_data[t].h4, audio_data[t].low)
  /\ pc' = [pc EXCEPT ![t] = "draw"]
  /\ UNCHANGED << modules, audio_data, language, y, sr, tmp_path, tmp_file,
                  loaded_by, features, ret, scored_by >>

\* np.random.uniform(-0.05, 0.05), the second clamp, the threshold, and the
\* return of detect_ai_voice
ClassifyDraw(t) ==
  /\ pc[t] = "draw"
  /\ LET score == Perturbed(final_score[t], Uniform(np_random))
     IN  /\ final_score' = [final_score EXCEPT ![t] = score]
         /\ ret' = [ret EXCEPT ![t] = Decide(score)]
  /\ np_random' = Advance(np_random)
  /\ scored_by' = [scored_by EXCEPT ![t] = "classify_voice"]
  /\ pc' = [pc EXCEPT ![t] = "done"]
  /\ UNCHANGED << modules, audio_data, language, y, sr, tmp_path, tmp_file,
                  loaded_by, features >>

\* except Exception: the classification from the digest alone
Except(t) ==
  /\ pc[t] = "except"
  /\ ret' = [ret EXCEPT ![t] = HashOnly(audio_data[t])]
  /\ scored_by' = [scored_by EXCEPT ![t] = "except"]
  /\ pc' = [pc EXCEPT ![t] = "done"]
  /\ UNCHANGED << modules, np_random, audio_data, language, y, sr, tmp_path,
                  tmp_file, loaded_by, features, final_score >>

Step(t) ==
  /\ \/ LoadMemory(t)
     \/ TmpWrite(t)
     \/ TmpRead(t)
     \/ Synth(t)
     \/ Extract(t)
     \/ ClassifySeed(t)
     \/ ClassifyDraw(t)
     \/ Except(t)
  /\ UNCHANGED api_vars

\* invocations on independent threads, interleaved at will
Next == \E t \in Threads : Call(t) \/ Step(t)

Spec == Init /\ [][Next]_vars

\* invocations one after another
NextSeq == \E t \in Threads : CallSeq(t) \/ Step(t)

SpecSeq == Init /\ [][NextSeq]_vars

(***************************************************************************)
(* classify_voice on its own: any feature dict, any digest                 *)
(***************************************************************************)
FeatureDict(std, rms, zcr, centroid, flatness, evar) ==
  SpectralTry(TimeDomain(Wave(TargetSr * 2, Stats(0, std, 2 * rms, rms, zcr, centroid, 4000, flatness, evar))),
              Wave(TargetSr * 2, Stats(0, std, 2 * rms, rms, zcr, centroid, 4000, flatness, evar)),
              TargetSr).features

FeatureSamples ==
  { FeatureDict(sd, 101, z, c, fl, ev) :
      sd \in {201, 202}, z \in {200, 500, 800}, c \in {800, 1500},
      fl \in {1500, 1501, 3000, 3001}, ev \in {499, 500, 1499, 1500} }
  \cup { FeatureDict(100, 100, 500, 1500, 3001, 499), EmptyDict }

DigestSamples ==
  { Bytes("digest", NoDecode, NoDecode, h4, low) :
      h4 \in {0, 16384, 32768, 49151, 65535}, low \in 0 .. 4 }

Caller == CHOOSE t \in Threads : TRUE

InitClassify ==
  /\ ApiIdle
  /\ SOUNDFILE_AVAILABLE = TRUE
  /\ SCIPY_AVAILABLE = TRUE
  /\ tmpfs = "ok"
  /\ np_random = OsEntropy
  /\ pc = [t \in Threads |-> IF t = Caller THEN "classify" ELSE "idle"]
  /\ audio_data \in { [t \in Threads |-> IF t = Caller THEN b ELSE NoBytes] : b \in DigestSamples }
  /\ language = [t \in Threads |-> "none"]
  /\ y = [t \in Threads |-> NoWave]
  /\ sr = [t \in Threads |-> 0]
  /\ tmp_path = [t \in Threads |-> FALSE]
  /\ tmp_file = [t \in Threads |-> "none"]
  /\ loaded_by = [t \in Threads |-> "none"]
  /\ features \in { [t \in Threads |-> IF t = Caller THEN f ELSE EmptyDict] : f \in FeatureSamples }
  /\ final_score = [t \in Threads |-> 0]
  /\ ret = [t \in Threads |-> NoResult]
  /\ scored_by = [t \in Threads |-> "none"]

NextClassify ==
  \E t \in Threads : (ClassifySeed(t) \/ ClassifyDraw(t)) /\ UNCHANGED api_vars

SpecClassify == InitClassify /\ [][NextClassify]_vars

(***************************************************************************)
(* load_audio_fast on its own: short clips at several sample rates         *)
(***************************************************************************)
MaxSamples == 6

SampleRates == {8000, 16000, 44100, 48000}

ClipDecodes ==
  { Decoded(n, r, 1, ToneStats) : n \in 0 .. MaxSamples, r \in SampleRates }

\* clips both decodes accept, clips only the file-backed decode accepts, and
\* bytes neither accepts
LoadInputs ==
  { Bytes("clip", d, d, 12000, 0) : d \in ClipDecodes }
  \cup { Bytes("fileclip", NoDecode, d, 12000, 1) : d \in ClipDecodes }
  \cup { Bytes("noise", NoDecode, NoDecode, 12000, 0) }

InitLoad ==
  /\ ApiIdle
  /\ SOUNDFILE_AVAILABLE \in BOOLEAN
  /\ SCIPY_AVAILABLE = TRUE
  /\ tmpfs \in {"ok", "write_fails"}
  /\ np_random = OsEntropy
  /\ pc = [t \in Threads |-> IF t = Caller THEN "load_mem" ELSE "idle"]
  /\ audio_data \in { [t \in Threads |-> IF t = Caller THEN b ELSE NoBytes] : b \in LoadInputs }
  /\ language = [t \in Threads |-> "none"]
  /\ y = [t \in Threads |-> NoWave]
  /\ sr = [t \in Threads |-> 0]
  /\ tmp_path = [t \in Threads |-> FALSE]
  /\ tmp_file = [t \in Threads |-> "none"]
  /\ loaded_by = [t \in Threads |-> "none"]
  /\ features = [t \in Threads |-> EmptyDict]
  /\ final_score = [t \in Threads |-> 0]
  /\ ret = [t \in Threads |-> NoResult]
  /\ scored_by = [t \in Threads |-> "none"]

NextLoad ==
  \E t \in Threads :
    (LoadMemory(t) \/ TmpWrite(t) \/ TmpRead(t) \/ Synth(t)) /\ UNCHANGED api_vars

SpecLoad == InitLoad /\ [][NextLoad]_vars

(***************************************************************************)
(* extract_features_fast on its own: signals of a few lengths, at the      *)
(* pipeline's rate and at a rate below 10 Hz                               *)
(***************************************************************************)
ExtractLengths == {0, 1, 2, 3, 1600, 3200, 48000}

ExtractRates == {5, TargetSr}

ExtractWaves == { Wave(n, st) : n \in ExtractLengths, st \in {ToneStats, SpeechStats, EdgeStats} }

InitExtract ==
  /\ ApiIdle
  /\ SOUNDFILE_AVAILABLE = TRUE
  /\ SCIPY_AVAILABLE \in BOOLEAN
  /\ tmpfs = "ok"
  /\ np_random = OsEntropy
  /\ pc = [t \in Threads |-> IF t = Caller THEN "extract" ELSE "idle"]
  /\ audio_data = [t \in Threads |-> NoBytes]
  /\ language = [t \in Threads |-> "none"]
  /\ y \in { [t \in Threads |-> IF t = Caller THEN w ELSE NoWave] : w \in ExtractWaves }
  /\ sr \in { [t \in Threads |-> IF t = Caller THEN r ELSE 0] : r \in ExtractRates }
  /\ tmp_path = [t \in Threads |-> FALSE]
  /\ tmp_file = [t \in Threads |-> "none"]
  /\ loaded_by = [t \in Threads |-> "none"]
  /\ features = [t \in Threads |-> EmptyDict]
  /\ final_score = [t \in Threads |-> 0]
  /\ ret = [t \in Threads |-> NoResult]
  /\ scored_by = [t \in Threads |-> "none"]

NextExtract == \E t \in Threads : Extract(t) /\ UNCHANGED api_vars

SpecExtract == InitExtract /\ [][NextExtract]_vars

(***************************************************************************)
(* main.py: POST /api/voice-detection                                      *)
(***************************************************************************)
\* the default of VALID_API_KEYS
VALID_API_KEYS == {"test-key-123", "guvi-api-key-2024"}

\* the Literal type of VoiceRequest.language
SUPPORTED_LANGUAGES == {"Tamil", "English", "Hindi", "Malayalam", "Telugu"}

\* len(v) < 50 is rejected by validate_base64
MinBase64Len == 50

\* len(audio_data) < 1000 is rejected by detect_voice
MinAudioBytes == 1000

StrLen(v) == v.data + v.url + v.pad

\* padding = 4 - len(v) % 4; if padding != 4: v = v + '=' * padding
AddPadding(v) ==
  LET padding == 4 - (StrLen(v) % 4)
  IN  IF padding # 4 THEN [v EXCEPT !.pad = @ + padding] ELSE v

\* binascii accepts d data characters followed by p "=" characters when the
\* last group is complete or padded out
GroupsOk(d, p) ==
  \/ d % 4 = 0
  \/ d % 4 = 2 /\ p >= 2
  \/ d % 4 = 3 /\ p >= 1

\* base64.b64decode(v) does not raise; characters outside the standard
\* alphabet are discarded
B64DecodeOk(v) == GroupsOk(v.data, v.pad)

\* base64.urlsafe_b64decode(v) does not raise
UrlsafeDecodeOk(v) == GroupsOk(v.data + v.url, v.pad)

\* len(base64.b64decode(v))
DecodedLen(v) == (3 * v.data) \div 4

\* VoiceRequest.validate_base64: the padded text, or ValueError
validate_base64(v) ==
  IF StrLen(v) = 0 \/ StrLen(v) < MinBase64Len
    THEN [ok |-> FALSE, v |-> v]
    ELSE IF B64DecodeOk(AddPadding(v)) \/ UrlsafeDecodeOk(AddPadding(v))
           THEN [ok |-> TRUE, v |-> AddPadding(v)]
           ELSE [ok |-> FALSE, v |-> v]

\* construction of VoiceRequest from the body: the Literal types of
\* language and audioFormat, the required audioBase64, and its validator
VoiceRequestOk(r) ==
  /\ r.language \in SUPPORTED_LANGUAGES
  /\ r.audioFormat = "mp3"
  /\ r.audioBase64.present
  /\ validate_base64(r.audioBase64).ok

verify_api_key(api_key) ==
  IF api_key = "<absent>" \/ api_key = ""
    THEN FALSE
    ELSE api_key \in VALID_API_KEYS

KeySamples == {"<absent>", "", "invalid-key-999"} \cup VALID_API_KEYS

Base64Samples ==
  { NoField, B64(0, 0, 0), B64(32, 0, 0), B64(49, 0, 0), B64(50, 0, 0), B64(52, 0, 0),
    B64(53, 0, 0), B64(49, 0, 1), B64(50, 1, 0), B64(1334, 0, 2), B64(1336, 0, 0),
    B64(1335, 1, 0), B64(6670, 0, 2) }

Requests ==
  { Request(k, l, f, v) :
      k \in KeySamples, l \in {"English", "Tamil", "english"},
      f \in {"mp3", "wav"}, v \in Base64Samples }

Respond(code) ==
  /\ status_code' = code
  /\ stage' = "responded"

\* a request arrives; the server handles one at a time
Receive ==
  /\ stage \in {"idle", "responded"}
  /\ \E r \in Requests : request' = r
  /\ stage' = "validate"
  /\ status_code' = 0
  /\ detector_invoked' = FALSE
  /\ UNCHANGED detector_vars

\* the framework builds the VoiceRequest parameter of detect_voice before it
\* calls the function; a body that does not validate is answered 422
ValidateBody ==
  /\ stage = "validate"
  /\ IF VoiceRequestOk(request)
       THEN /\ request' = [request EXCEPT !.audioBase64 = validate_base64(@).v]
            /\ stage' = "auth"
            /\ UNCHANGED status_code
       ELSE /\ Respond(422)
            /\ UNCHANGED request
  /\ UNCHANGED << detector_invoked, detector_vars >>

\* detect_voice: if not verify_api_key(x_api_key): raise HTTPException(401)
Authenticate ==
  /\ stage = "auth"
  /\ IF verify_api_key(request.x_api_key)
       THEN /\ stage' = "decode"
            /\ UNCHANGED status_code
       ELSE Respond(401)
  /\ UNCHANGED << request, detector_invoked, detector_vars >>

\* detect_voice: the base64 decode and the size check, each answered 400
DecodeAudio ==
  /\ stage = "decode"
  /\ LET audio_b64 == AddPadding(request.audioBase64)
     IN  IF ~B64DecodeOk(audio_b64) \/ DecodedLen(audio_b64) < MinAudioBytes
           THEN Respond(400)
           ELSE /\ stage' = "detect"
                /\ UNCHANGED status_code
  /\ UNCHANGED << request, detector_invoked, detector_vars >>

\* detect_voice: the call of detect_ai_voice and the SuccessResponse
Detect ==
  /\ stage = "detect"
  /\ detector_invoked' = TRUE
  /\ Respond(200)
  /\ UNCHANGED << request, detector_vars >>

NextApi == Receive \/ ValidateBody \/ Authenticate \/ DecodeAudio \/ Detect

InitApi ==
  /\ ApiIdle
  /\ SOUNDFILE_AVAILABLE = TRUE
  /\ SCIPY_AVAILABLE = TRUE
  /\ tmpfs = "ok"
  /\ np_random = OsEntropy
  /\ pc = [t \in Threads |-> "idle"]
  /\ audio_data = [t \in Threads |-> NoBytes]
  /\ language = [t \in Threads |-> "none"]
  /\ y = [t \in Threads |-> NoWave]
  /\ sr = [t \in Threads |-> 0]
  /\ tmp_path = [t \in Threads |-> FALSE]
  /\ tmp_file = [t \in Threads |-> "none"]
  /\ loaded_by = [t \in Threads |-> "none"]
  /\ features = [t \in Threads |-> EmptyDict]
  /\ final_score = [t \in Threads |-> 0]
  /\ ret = [t \in Threads |-> NoResult]
  /\ scored_by = [t \in Threads |-> "none"]

SpecApi == InitApi /\ [][NextApi]_vars

(***************************************************************************)
(* Properties                                                              *)
(***************************************************************************)
Returned(t) == pc[t] = "done"

Running(t) == pc[t] \notin {"idle", "done"}

\* C1: whatever the bytes and the language, an invocation of detect_ai_voice
\* never leaves by an exception: while it runs it always has a next step, no
\* exception escapes the try block, and when it has returned it holds a
\* (label, confidence) pair.
C1_Totality ==
  \A t \in Threads :
    /\ pc[t] # "raised"
    /\ Running(t) => ENABLED Step(t)
    /\ Returned(t) => ret[t] # NoResult

\* a decode to zero samples made extract_features_fast raise, and the
\* invocation returned all the same
C1_Witness ==
  \E t \in Threads :
    /\ Returned(t)
    /\ loaded_by[t] = "memory"
    /\ y[t].len = 0
    /\ scored_by[t] = "except"

\* C2: on the classifier path and on the hash-only path alike the returned
\* label is AI_GENERATED or HUMAN and the confidence lies in [0.0, 1.0].
C2_Range ==
  \A t \in Threads :
    Returned(t) =>
      /\ ret[t].label \in Labels
      /\ 0 <= ret[t].confidence
      /\ ret[t].confidence <= Scale

\* one invocation returned from classify_voice with its score clamped at 0,
\* another from the except branch
C2_Witness ==
  \E t, u \in Threads :
    /\ Returned(t) /\ scored_by[t] = "classify_voice" /\ final_score[t] = 0
    /\ Returned(u) /\ scored_by[u] = "except"

\* C3: two invocations on the same bytes, made one after the other, return
\* the same (label, confidence), whatever was invoked before or in between.
C3_Determinism ==
  \A t, u \in Threads :
    (/\ Returned(t) /\ Returned(u)
     /\ audio_data[t] = audio_data[u]
     /\ language[t] = language[u])
    => ret[t] = ret[u]

\* the same bytes were classified twice through classify_voice
C3_Witness ==
  \E t, u \in Threads :
    /\ t # u
    /\ Returned(t) /\ Returned(u)
    /\ audio_data[t] = audio_data[u]
    /\ language[t] = language[u]
    /\ scored_by[t] = "classify_voice" /\ scored_by[u] = "classify_voice"

\* what load_audio_fast returns for b when nothing else runs
LoadAlone(b) ==
  IF SOUNDFILE_AVAILABLE /\ b.mem.ok /\ ~PostDecode(b.mem, TargetSr).raised
    THEN PostDecode(b.mem, TargetSr).y
    ELSE IF SOUNDFILE_AVAILABLE /\ tmpfs = "ok" /\ b.file.ok /\ ~PostDecode(b.file, TargetSr).raised
           THEN PostDecode(b.file, TargetSr).y
           ELSE SynthWave(b, TargetSr)

\* what detect_ai_voice returns for b when nothing else runs
DetectAlone(b) ==
  LET r == extract_features_fast(LoadAlone(b), TargetSr, SCIPY_AVAILABLE)
  IN  IF r.raised
        THEN HashOnly(b)
        ELSE Decide(Perturbed(NormalizedScore(r.features, b), Uniform(Seeded(b.h4, b.low))))

\* C4: invocations running concurrently on independent threads each return
\* what the same invocation returns when it runs alone.
C4_Isolation ==
  \A t \in Threads : Returned(t) => ret[t] = DetectAlone(audio_data[t])

\* C5: a temporary file created by load_audio_fast no longer exists once
\* load_audio_fast has returned, whichever way it returned.
C5_TempFileRemoved ==
  \A t \in Threads :
    pc[t] \in {"extract", "classify", "draw", "except", "done"} => tmp_file[t] # "exists"

Undecodable(b) == ~SOUNDFILE_AVAILABLE \/ (~b.mem.ok /\ ~b.file.ok)

\* C6: bytes no decoder can decode are classified through the synthetic
\* waveform, extract_features_fast and classify_voice; the except branch of
\* detect_ai_voice is never taken for them and classify_voice is handed all
\* nine features.
C6_FallbackRoute ==
  \A t \in Threads :
    Undecodable(audio_data[t]) =>
      /\ pc[t] # "except"
      /\ pc[t] \in {"extract", "classify", "draw", "done"} => loaded_by[t] = "synthetic"
      /\ pc[t] \in {"classify", "draw", "done"} => DOMAIN features[t] = FeatureKeys
      /\ Returned(t) => scored_by[t] = "classify_voice"

\* bytes that soundfile rejected twice were classified by classify_voice
C6_Witness ==
  \E t \in Threads :
    /\ SOUNDFILE_AVAILABLE
    /\ ~audio_data[t].mem.ok /\ ~audio_data[t].file.ok
    /\ tmp_file[t] = "deleted"
    /\ Returned(t)
    /\ loaded_by[t] = "synthetic"
    /\ scored_by[t] = "classify_voice"

\* C7: the language argument has no influence: the same bytes under two
\* languages give the same (label, confidence).
C7_LanguageIgnored ==
  \A t, u \in Threads :
    (/\ Returned(t) /\ Returned(u)
     /\ audio_data[t] = audio_data[u]
     /\ language[t] # language[u])
    => ret[t] = ret[u]

\* the same bytes were classified under two different languages
C7_Witness ==
  \E t, u \in Threads :
    /\ Returned(t) /\ Returned(u)
    /\ audio_data[t] = audio_data[u]
    /\ language[t] # language[u]
    /\ scored_by[t] = "classify_voice" /\ scored_by[u] = "classify_voice"

\* C8: classify_voice reports AI_GENERATED exactly when the twice clamped
\* final_score exceeds 0.5, with confidence final_score; otherwise, 0.5
\* included, it reports HUMAN with confidence 1 - final_score.
C8_ConfidenceSplit ==
  \A t \in Threads :
    (Returned(t) /\ scored_by[t] = "classify_voice") =>
      /\ 0 <= final_score[t] /\ final_score[t] <= Scale
      /\ ret[t].label = "AI_GENERATED" <=> final_score[t] > 5000
      /\ ret[t].label = "HUMAN" <=> final_score[t] <= 5000
      /\ ret[t].label = "AI_GENERATED" => ret[t].confidence = final_score[t]
      /\ ret[t].label = "HUMAN" => ret[t].confidence = Scale - final_score[t]

\* classify_voice returned with final_score exactly 0.5
C8_Witness ==
  \E t \in Threads :
    /\ Returned(t)
    /\ scored_by[t] = "classify_voice"
    /\ final_score[t] = 5000
    /\ ret[t] = [label |-> "HUMAN", confidence |-> 5000]

\* C9: a request without an x-api-key header, or with a key that is not
\* valid, is answered 401 whatever its body, and detect_ai_voice is not
\* called for it.
C9_Unauthorized ==
  (stage = "responded" /\ ~verify_api_key(request.x_api_key)) =>
    (status_code = 401 /\ ~detector_invoked)

\* a base64 text in the standard alphabet whose groups are complete
WellFormedBase64(v) ==
  /\ v.present
  /\ v.url = 0
  /\ v.pad <= 2
  /\ StrLen(v) > 0
  /\ StrLen(v) % 4 = 0
  /\ GroupsOk(v.data, v.pad)

\* C10: a VoiceRequest with a supported language, audioFormat "mp3" and a
\* well-formed, non-empty base64 text of any length is constructed without
\* a validation error.
C10_WellFormedAccepted ==
  (/\ stage \in {"auth", "decode", "detect", "responded"}
   /\ request.language \in SUPPORTED_LANGUAGES
   /\ request.audioFormat = "mp3"
   /\ WellFormedBase64(request.audioBase64))
  => status_code # 422

\* load_audio_fast has returned to detect_ai_voice
Loaded(t) == pc[t] \in {"extract", "classify", "draw", "except", "done"}

\* C11: whichever way load_audio_fast returns (in-memory decode, temporary
\* file decode, synthetic fallback), the buffer it returns has length > 0 and
\* the rate it returns is the target rate.
C11_NonEmptyAtTargetRate ==
  \A t \in Threads : Loaded(t) => (y[t].len > 0 /\ sr[t] = TargetSr)

\* the decode whose signal load_audio_fast returned
Source(t) == IF loaded_by[t] = "memory" THEN audio_data[t].mem ELSE audio_data[t].file

\* load_audio_fast returned a decoded signal that it had to resample
Resampled(t) ==
  /\ Loaded(t)
  /\ loaded_by[t] \in {"memory", "tempfile"}
  /\ Source(t).sr # TargetSr

\* C12 as stated: the resampled waveform has length
\* round(original_length * target_rate / original_rate).
C12_RoundedLength ==
  \A t \in Threads :
    Resampled(t) => y[t].len = RoundDiv(Source(t).len * TargetSr, Source(t).sr)

\* C12 as amended: the resampled waveform has the length
\* original_length * target_rate / original_rate truncated to an integer,
\* i.e. n with n * rate <= original_length * target_rate < (n + 1) * rate.
C12_TruncatedLength ==
  \A t \in Threads :
    Resampled(t) =>
      /\ y[t].len * Source(t).sr <= Source(t).len * TargetSr
      /\ Source(t).len * TargetSr < (y[t].len + 1) * Source(t).sr

\* five samples at 44100 Hz came back as one sample, where rounding gives two
C12_Witness ==
  \E t \in Threads :
    /\ Resampled(t)
    /\ Source(t).sr = 44100
    /\ Source(t).len = 5
    /\ y[t].len = 1

\* the Flatness-high tier and the Energy-var-low tier both fire
BothTiers(f) ==
  /\ Get(f, "spectral_flatness", 0) > 3000
  /\ Get(f, "energy_variance", Scale) < 500

\* what the ZCR-band, Centroid-band and RMS-consistency rules add
OtherRules(f) ==
  (IF 200 < Get(f, "zcr", 1000) /\ Get(f, "zcr", 1000) < 800 THEN 1500 ELSE 0)
  + (IF 800 < Get(f, "spectral_centroid", 1500) /\ Get(f, "spectral_centroid", 1500) < 2000
       THEN 1000 ELSE 0)
  + (IF Get(f, "rms", 0) > 100 /\ Get(f, "std", Scale) < 2 * Get(f, "rms", Scale)
       THEN 1500 ELSE 0)

\* the other rules' scores plus the two perturbations of an invocation that
\* drew right after its own seeding
Margin(t) ==
  OtherRules(features[t]) + HashVariation(audio_data[t])
  + Uniform(Seeded(audio_data[t].h4, audio_data[t].low))

Classified(t) == Returned(t) /\ scored_by[t] = "classify_voice"

\* C13 as stated: whenever both tiers fire the final score exceeds 0.5 and
\* the label is AI_GENERATED, whatever the other features and the digest.
C13_TiersImplyAI ==
  \A t \in Threads :
    (Classified(t) /\ BothTiers(features[t])) =>
      (final_score[t] > 5000 /\ ret[t].label = "AI_GENERATED")

\* C13 as amended: when both tiers fire the final score is at least 0.35; it
\* exceeds 0.5, with label AI_GENERATED, when the other rules' scores plus
\* the two perturbations sum to more than zero, and the label is HUMAN when
\* that sum is below zero.
C13_TiersAndMargin ==
  \A t \in Threads :
    (Classified(t) /\ BothTiers(features[t])) =>
      /\ final_score[t] >= 3500
      /\ Margin(t) > 0 => (final_score[t] > 5000 /\ ret[t].label = "AI_GENERATED")
      /\ Margin(t) < 0 => (final_score[t] < 5000 /\ ret[t].label = "HUMAN")

\* both tiers fired, no other rule did, and positive perturbations carried
\* the score over 0.5
C13_Witness ==
  \E t \in Threads :
    /\ Classified(t)
    /\ BothTiers(features[t])
    /\ OtherRules(features[t]) = 0
    /\ Margin(t) > 0
    /\ ret[t].label = "AI_GENERATED"

\* extract_features_fast has returned its dict to detect_ai_voice
Extracted(t) == pc[t] \in {"classify", "draw"} \/ Classified(t)

\* the frequency-domain features were not all computed: scipy is missing, or
\* the try block raised
FrequencyFailed(t) ==
  \/ ~SCIPY_AVAILABLE
  \/ SpectralTry(TimeDomain(y[t]), y[t], sr[t]).raised

\* C14: the dict extract_features_fast returns holds all nine keys, and when
\* the frequency-domain computation failed, at whatever step, the four
\* frequency-domain features hold 1000.0, 4000.0, 0.5 and 0.1: no partially
\* computed value remains.
C14_AllKeysNeutralOnFailure ==
  \A t \in Threads :
    Extracted(t) =>
      /\ DOMAIN features[t] = FeatureKeys
      /\ FrequencyFailed(t) =>
           /\ features[t]["spectral_centroid"] = 1000
           /\ features[t]["spectral_rolloff"] = 4000
           /\ features[t]["spectral_flatness"] = 5000
           /\ features[t]["energy_variance"] = 1000

\* the try block raised after centroid, rolloff and flatness had been
\* computed, and the computed flatness was replaced by the neutral 0.5
C14_Witness ==
  \E t \in Threads :
    /\ Extracted(t)
    /\ SCIPY_AVAILABLE
    /\ y[t].len = 3
    /\ SpectralTry(TimeDomain(y[t]), y[t], sr[t]).raised
    /\ SpectralTry(TimeDomain(y[t]), y[t], sr[t]).features["spectral_flatness"] = 3500
    /\ features[t]["spectral_flatness"] = 5000

====
